---- MODULE Spec2Model ----
(***************************************************************************)
(* Model of the two ultrasonic ranging drivers of src/main.ts:             *)
(*   namespace ultrasonic    (standard variant, mean of valid samples)     *)
(*   namespace ultrasonic33  (3.3 V robust variant, retry ladder, median)  *)
(*                                                                         *)
(* A TypeScript `number` that may be fractional (a distance in cm, a sum,  *)
(* a call argument) is an exact rational <<n, d>> in lowest terms, d > 0,  *)
(* in every specification but SpecFloat, which computes the aggregation    *)
(* in IEEE 754 double precision, as the program does, to show where        *)
(* rounding matters.  Numbers the code only ever holds as integers (pulse  *)
(* durations, loop counters, stored timeouts) are TLA+ integers.  All      *)
(* numbers lie inside the signed 32-bit range, on which `x | 0` truncates  *)
(* the fraction toward zero and never wraps.                               *)
(***************************************************************************)
EXTENDS Integers, Sequences, FiniteSets, Bags, TLC

(***************************************************************************)
(* Bounds of the model                                                     *)
(***************************************************************************)
\* largest `samples` argument passed to ultrasonic.read
MaxSamplesArg == 12
\* largest `samples` argument passed to ultrasonic33.distance
MaxSamples33 == 4
\* number of tasks (task 1 is the main program, the others are free slots
\* for control.inBackground)
NTasks == 3

(***************************************************************************)
(* Rational arithmetic                                                     *)
(***************************************************************************)
Abs(x) == IF x < 0 THEN -x ELSE x

RECURSIVE GCD(_, _)
GCD(a, b) == IF b = 0 THEN a ELSE GCD(b, a % b)

\* n/d in lowest terms (d > 0)
Rat(n, d) == LET g == GCD(Abs(n), d) IN <<(Abs(n) \div g) * (IF n < 0 THEN -1 ELSE 1), d \div g>>

Int2Rat(n) == <<n, 1>>
Zero == Int2Rat(0)

RAdd(a, b) == Rat(a[1] * b[2] + b[1] * a[2], a[2] * b[2])
\* a / b for b > 0
RDiv(a, b) == Rat(a[1] * b[2], a[2] * b[1])
RLess(a, b) == a[1] * b[2] < b[1] * a[2]
RLeq(a, b) == a[1] * b[2] <= b[1] * a[2]
IsInteger(a) == a[2] = 1

\* Math.max / Math.min on integers
Max(a, b) == IF a >= b THEN a ELSE b
Min(a, b) == IF a <= b THEN a ELSE b

\* x | 0 : ToInt32, the fraction is dropped toward zero
ToInt32(x) == IF x[1] >= 0 THEN x[1] \div x[2] ELSE -((-x[1]) \div x[2])

(***************************************************************************)
(* Numbers as the program computes them: IEEE 754 double precision         *)
(***************************************************************************)
\* IEEE 754 double precision, the positive normal values and 0: [e, m] is the value
\* 1.m[2]m[3]...m[53] * 2^e, with m a sequence of 53 bits and m[1] = 1; 0 has the
\* empty mantissa. Results are rounded to nearest, ties to even.
MantissaBits == 53
\* bit sequences are added and divided in digits of ChunkBits bits
ChunkBits == 9
FZero == [e |-> 0, m |-> <<>>]
Zeros(n) == [j \in 1..n |-> 0]
\* the w bits of the integer v, 0 <= v < 2^w, most significant first
ToBits(v, w) == [j \in 1..w |-> (v \div 2^(w - j)) % 2]
\* the integer of a short bit sequence
RECURSIVE BitsValue(_)
BitsValue(b) ==
    IF b = <<>> THEN 0 ELSE 2 * BitsValue(SubSeq(b, 1, Len(b) - 1)) + b[Len(b)]
\* a bit sequence, padded with zeros on the right, as a sequence of digits
Chunked(bits) ==
    LET k == (Len(bits) + ChunkBits - 1) \div ChunkBits
        p == bits \o Zeros(k * ChunkBits - Len(bits))
    IN [c \in 1..k |-> BitsValue(SubSeq(p, (c - 1) * ChunkBits + 1, c * ChunkBits))]
\* the bits of a sequence of digits
Flatten(chunks) ==
    [j \in 1..(Len(chunks) * ChunkBits) |->
        ToBits(chunks[(j - 1) \div ChunkBits + 1], ChunkBits)[((j - 1) % ChunkBits) + 1]]
\* the number of zeros before the first one of a bit sequence
LeadingZeros(b) == (CHOOSE j \in 1..Len(b) : b[j] = 1 /\ \A i \in 1..(j - 1) : b[i] = 0) - 1
\* b + 1 for a bit sequence that has a zero
IncBits(b) ==
    LET p == CHOOSE j \in 1..Len(b) : b[j] = 0 /\ \A i \in (j + 1)..Len(b) : b[i] = 1
    IN [j \in 1..Len(b) |-> IF j < p THEN b[j] ELSE IF j = p THEN 1 ELSE 0]
\* the next double above x > 0
FSucc(x) ==
    IF \A j \in 1..MantissaBits : x.m[j] = 1
    THEN [e |-> x.e + 1, m |-> <<1>> \o Zeros(MantissaBits - 1)]
    ELSE [e |-> x.e, m |-> IncBits(x.m)]
\* the double nearest to 1.bits[2]bits[3]... * 2^e (bits[1] = 1); sticky tells
\* whether the exact value has more non-zero bits after `bits`
FRound(e, bits, sticky) ==
    LET b == bits \o Zeros(MantissaBits + 1)
        keep == SubSeq(b, 1, MantissaBits)
        guard == b[MantissaBits + 1]
        rest == sticky \/ \E j \in (MantissaBits + 2)..Len(b) : b[j] = 1
    IN IF guard = 1 /\ (rest \/ keep[MantissaBits] = 1)
       THEN FSucc([e |-> e, m |-> keep])
       ELSE [e |-> e, m |-> keep]
\* the double of an integer n, 0 <= n < 2^31 (exact)
FromInt(n) ==
    IF n = 0 THEN FZero
    ELSE LET b == ToBits(n, 31)
             z == LeadingZeros(b)
         IN [e |-> 30 - z, m |-> SubSeq(b, z + 1, 31) \o Zeros(MantissaBits - 31 + z)]
\* long division of a sequence of digits by the integer n > 0, from remainder r:
\* <<quotient digits, remainder>>
RECURSIVE DivChunks(_, _, _, _)
DivChunks(chunks, n, r, q) ==
    IF chunks = <<>> THEN <<q, r>>
    ELSE LET r1 == r * 2^ChunkBits + Head(chunks)
         IN DivChunks(Tail(chunks), n, r1 % n, Append(q, r1 \div n))
\* x / n for a double x and an integer n, 0 < n < 2^10
FDivInt(x, n) ==
    IF x = FZero THEN FZero
    ELSE LET qr == DivChunks(Chunked(x.m \o Zeros(10)), n, 0, <<>>)
             q == Flatten(qr[1])
             z == LeadingZeros(q)
         IN FRound(x.e - z, SubSeq(q, z + 1, Len(q)), qr[2] # 0)
\* the sum of two sequences of digits of the same length: <<carry, digits>>
RECURSIVE AddChunks(_, _)
AddChunks(a, b) ==
    IF a = <<>> THEN <<0, <<>>>>
    ELSE LET rest == AddChunks(Tail(a), Tail(b))
             s == Head(a) + Head(b) + rest[1]
         IN <<s \div 2^ChunkBits, <<s % 2^ChunkBits>> \o rest[2]>>
\* x < y
FLess(x, y) ==
    IF y = FZero THEN FALSE
    ELSE IF x = FZero THEN TRUE
    ELSE \/ x.e < y.e
         \/ /\ x.e = y.e
            /\ \E j \in 1..MantissaBits : /\ x.m[j] < y.m[j]
                                          /\ \A i \in 1..(j - 1) : x.m[i] = y.m[i]
\* x + y for doubles x >= y > 0
FAddOrdered(x, y) ==
    LET sh == x.e - y.e
        s == AddChunks(Chunked(x.m \o Zeros(sh)), Chunked(Zeros(sh) \o y.m))
        bits == Flatten(s[2])
    IN IF sh > MantissaBits + 1 THEN x
       ELSE IF s[1] = 1 THEN FRound(x.e + 1, <<1>> \o bits, FALSE)
       ELSE FRound(x.e, bits, FALSE)
\* x + y
FAdd(x, y) ==
    IF x = FZero THEN y
    ELSE IF y = FZero THEN x
    ELSE IF FLess(x, y) THEN FAddOrdered(y, x) ELSE FAddOrdered(x, y)

(***************************************************************************)
(* Program constants                                                       *)
(***************************************************************************)
\* enum Unit
Centimeters == 0
Inches == 1
\* HC-SR04: distance(cm) = duration(us) / 58
UsPerCm == 58
\* 2.54 cm per inch, as the rational 254/100
CmPerInch == Rat(254, 100)

Pins == {"P0", "P1", "P2"}
Units == {Centimeters, Inches}
Tasks == 1..NTasks

(***************************************************************************)
(* State                                                                   *)
(***************************************************************************)
VARIABLES
    ultrasonic,     \* module state of namespace ultrasonic: _trig, _echo, _maxUs, _polling
    ultrasonic33,   \* module state of namespace ultrasonic33: _trig, _echo, _maxUs, _settleUs
    pinLevel,       \* level last written to each digital pin
    task,           \* per task: its kind, its position and the locals of the call it is in
    running,        \* the task holding the processor, 0 when every task is parked at a yield
    obs             \* per task, history of the call in progress (read by the properties only)

vars == <<ultrasonic, ultrasonic33, pinLevel, task, running, obs>>

\* locals of a task that is in no call
NoLocals ==
    [unit |-> Centimeters, samples |-> Zero, i |-> 0, sum |-> Zero, cnt |-> 0,
     vals |-> <<>>, d |-> 0, dur |-> 0, cm |-> Zero]

\* threshold and handler are the variables a watcher's closure captures
UserTask ==
    [kind |-> "user", pc |-> "idle", loc |-> NoLocals, threshold |-> 0, handler |-> "none",
     ret |-> Zero]
FreeTask ==
    [kind |-> "free", pc |-> "none", loc |-> NoLocals, threshold |-> 0, handler |-> "none",
     ret |-> Zero]

\* history of a call: the operation, its raw arguments, the number of single-shot
\* measurements begun, inter-sample pauses taken, the bag of the final pulse durations
\* of the measurements that returned (0 for a failed one),
\* whether any pulse measurement was positive, the pin and timing events of the
\* current single-shot measurement; req2 is the second argument of setTiming
NoObs ==
    [op |-> "none", done |-> FALSE, unit |-> Centimeters, req |-> Zero, req2 |-> Zero,
     cycles |-> 0, pauses |-> 0, seen |-> EmptyBag, anyPos |-> FALSE, log |-> <<>>]

\* history of the program, kept at obs[0]: the registrations made by
\* onDistanceLessThan, each <<task created, threshold passed, handler passed>>
NoRegs == [regs |-> <<>>]

Init ==
    /\ ultrasonic = [trig |-> "P1", echo |-> "P0", maxUs |-> 25000, polling |-> FALSE]
    /\ ultrasonic33 = [trig |-> "P1", echo |-> "P2", maxUs |-> 40000, settleUs |-> 600]
    /\ pinLevel = [p \in Pins |-> 0]
    /\ task = [t \in Tasks |-> IF t = 1 THEN UserTask ELSE FreeTask]
    /\ running = 0
    /\ obs = [t \in {0} \cup Tasks |-> IF t = 0 THEN NoRegs ELSE NoObs]

\* the value of `running` while task t waits in pins.pulseIn: the wait is a
\* cooperative yield, any task may be resumed
WhilePulseIn(t) == 0

\* cooperative scheduling: a task steps when it holds the processor or nobody does.
\* A task gives the processor up in basic.pause, while it waits in pins.pulseIn, and
\* when it is back in the calling program; control.waitMicros keeps the processor.
CanRun(t) == running \in {0, t}

\* where a task continues when read() returns to it
AfterRead(kind) == IF kind = "watcher" THEN "w_check" ELSE "idle"

(***************************************************************************)
(* Pin and timing events.  A single-shot measurement appends to obs.log:   *)
(*   <<"write", pin, level>>            pins.digitalWritePin               *)
(*   <<"waitMicros", us>>               control.waitMicros                 *)
(*   <<"pulseIn", pin, polarity, max>>  pins.pulseIn called                *)
(*   <<"echo", duration>>               pins.pulseIn returned              *)
(***************************************************************************)
RECURSIVE LevelAfter(_, _)
LevelAfter(level, events) ==
    IF events = <<>> THEN level
    ELSE LET e == Head(events)
         IN LevelAfter(IF e[1] = "write" THEN [level EXCEPT ![e[2]] = e[3]] ELSE level,
                       Tail(events))

\* a task updates its own frame and history
SetTask(t, f) == task' = [task EXCEPT ![t] = f]
SetObs(t, o) == obs' = [obs EXCEPT ![t] = o]

(***************************************************************************)
(* namespace ultrasonic : read, measureOnceCm                              *)
(***************************************************************************)
\* samples = Math.max(1, Math.min(10, samples | 0))
ClampSamplesNoLower(samples) == Min(10, ToInt32(samples))
ClampSamples(samples) == Max(1, Min(10, ToInt32(samples)))

\* frame of a task entering read(unit, samples)
ReadEntry(f, unit, samples) ==
    [f EXCEPT !.pc = "rd_loop", !.ret = Zero,
              !.loc = [NoLocals EXCEPT !.unit = unit,
                                       !.samples = Int2Rat(ClampSamples(samples))]]

ReadObs(unit, samples) ==
    [NoObs EXCEPT !.op = "read", !.unit = unit, !.req = samples]

\* const d = pulseIn(...); if (d <= 0) return 0; return d / 58
MeasureOnceCmZeroOnly(d) == IF d = 0 THEN Zero ELSE Rat(d, UsPerCm)
MeasureOnceCmResult(d) == IF d <= 0 THEN Zero ELSE Rat(d, UsPerCm)

\* if (cm > 0) { sum += cm; cnt++ }
AccumulateCountAll(loc) == [loc EXCEPT !.sum = RAdd(@, loc.cm), !.cnt = @ + 1]
Accumulate(loc) ==
    IF RLess(Zero, loc.cm)
    THEN [loc EXCEPT !.sum = RAdd(@, loc.cm), !.cnt = @ + 1]
    ELSE loc

\* cmAvg = cnt > 0 ? sum / cnt : 0; inches: cmAvg / 2.54
ReadResult(loc) ==
    LET cmAvg == IF loc.cnt > 0 THEN RDiv(loc.sum, Int2Rat(loc.cnt)) ELSE Zero
    IN IF loc.unit = Inches THEN RDiv(cmAvg, CmPerInch) ELSE cmAvg

\* the trigger pulse of measureOnceCm and the call of pulseIn
StdTriggerEventsDefaultTimeout ==
    << <<"write", ultrasonic.trig, 0>>, <<"waitMicros", 2>>,
       <<"write", ultrasonic.trig, 1>>, <<"waitMicros", 10>>,
       <<"write", ultrasonic.trig, 0>>,
       <<"pulseIn", ultrasonic.echo, "High", 25000>> >>
StdTriggerEvents ==
    << <<"write", ultrasonic.trig, 0>>, <<"waitMicros", 2>>,
       <<"write", ultrasonic.trig, 1>>, <<"waitMicros", 10>>,
       <<"write", ultrasonic.trig, 0>>,
       <<"pulseIn", ultrasonic.echo, "High", ultrasonic.maxUs>> >>

\* export function read(unit, samples)
CallRead(t, unit, samples) ==
    /\ CanRun(t)
    /\ task[t].kind = "user" /\ task[t].pc = "idle"
    /\ SetTask(t, ReadEntry(task[t], unit, samples))
    /\ SetObs(t, ReadObs(unit, samples))
    /\ running' = t
    /\ UNCHANGED <<ultrasonic, ultrasonic33, pinLevel>>

\* export function distanceCm(): read(Unit.Centimeters, 1)
CallDistanceCm(t) ==
    /\ CanRun(t)
    /\ task[t].kind = "user" /\ task[t].pc = "idle"
    /\ SetTask(t, ReadEntry(task[t], Centimeters, Int2Rat(1)))
    /\ SetObs(t, ReadObs(Centimeters, Int2Rat(1)))
    /\ running' = t
    /\ UNCHANGED <<ultrasonic, ultrasonic33, pinLevel>>

\* for (...; i < samples; ...): the loop test, and the return after the loop
ReadLoop(t) ==
    /\ CanRun(t)
    /\ task[t].pc = "rd_loop"
    /\ IF RLess(Int2Rat(task[t].loc.i), task[t].loc.samples)
       THEN /\ SetTask(t, [task[t] EXCEPT !.pc = "m_trig"])
            /\ UNCHANGED obs
       ELSE /\ SetTask(t, [task[t] EXCEPT !.pc = AfterRead(task[t].kind),
                                          !.ret = ReadResult(task[t].loc),
                                          !.loc = NoLocals])
            /\ SetObs(t, [obs[t] EXCEPT !.done = TRUE])
    /\ running' = IF task'[t].pc = "idle" THEN 0 ELSE t
    /\ UNCHANGED <<ultrasonic, ultrasonic33, pinLevel>>

\* measureOnceCm up to the call of pulseIn, where the task waits for the echo
MeasureTriggerSerialised(t) ==
    /\ CanRun(t)
    /\ task[t].pc = "m_trig"
    /\ \A u \in Tasks \ {t} : task[u].pc # "m_pulse"
    /\ pinLevel' = LevelAfter(pinLevel, StdTriggerEvents)
    /\ SetTask(t, [task[t] EXCEPT !.pc = "m_pulse"])
    /\ SetObs(t, [obs[t] EXCEPT !.cycles = @ + 1, !.log = StdTriggerEvents])
    /\ running' = WhilePulseIn(t)
    /\ UNCHANGED <<ultrasonic, ultrasonic33>>
MeasureTrigger(t) ==
    /\ CanRun(t)
    /\ task[t].pc = "m_trig"
    /\ pinLevel' = LevelAfter(pinLevel, StdTriggerEvents)
    /\ SetTask(t, [task[t] EXCEPT !.pc = "m_pulse"])
    /\ SetObs(t, [obs[t] EXCEPT !.cycles = @ + 1, !.log = StdTriggerEvents])
    /\ running' = WhilePulseIn(t)
    /\ UNCHANGED <<ultrasonic, ultrasonic33>>

\* pulseIn returns d; measureOnceCm returns to read with cm
MeasureEcho(t, d) ==
    /\ CanRun(t)
    /\ task[t].pc = "m_pulse"
    /\ SetTask(t, [task[t] EXCEPT !.pc = "rd_acc", !.loc.d = d,
                                  !.loc.cm = MeasureOnceCmResult(d)])
    /\ SetObs(t, [obs[t] EXCEPT !.log = Append(@, <<"echo", d>>),
                                !.anyPos = @ \/ d > 0,
                                !.seen = @ (+) SetToBag({IF d > 0 THEN d ELSE 0})])
    /\ running' = t
    /\ UNCHANGED <<ultrasonic, ultrasonic33, pinLevel>>

\* the loop body after measureOnceCm: accumulate, then basic.pause(10)
ReadAccumulateNoPause(t) ==
    /\ CanRun(t)
    /\ task[t].pc = "rd_acc"
    /\ SetTask(t, [task[t] EXCEPT !.pc = "rd_loop", !.loc = [Accumulate(task[t].loc)
                                                            EXCEPT !.i = @ + 1]])
    /\ running' = t
    /\ UNCHANGED <<ultrasonic, ultrasonic33, pinLevel, obs>>
ReadAccumulate(t) ==
    /\ CanRun(t)
    /\ task[t].pc = "rd_acc"
    /\ SetTask(t, [task[t] EXCEPT !.pc = "rd_pause", !.loc = Accumulate(task[t].loc)])
    /\ SetObs(t, [obs[t] EXCEPT !.pauses = @ + 1])
    /\ running' = 0
    /\ UNCHANGED <<ultrasonic, ultrasonic33, pinLevel>>

\* the pause is over: i++
ReadResume(t) ==
    /\ CanRun(t)
    /\ task[t].pc = "rd_pause"
    /\ SetTask(t, [task[t] EXCEPT !.pc = "rd_loop", !.loc.i = @ + 1])
    /\ running' = t
    /\ UNCHANGED <<ultrasonic, ultrasonic33, pinLevel, obs>>

(***************************************************************************)
(* namespace ultrasonic33 : distance, measureOnceCmRobust                  *)
(***************************************************************************)
\* vals.sort((a, b) => a - b): insertion into an ascending sequence
RECURSIVE Insert(_, _)
Insert(x, sorted) ==
    IF sorted = <<>> THEN <<x>>
    ELSE IF RLeq(x, Head(sorted)) THEN <<x>> \o sorted
    ELSE <<Head(sorted)>> \o Insert(x, Tail(sorted))

RECURSIVE Sort(_)
Sort(vals) == IF vals = <<>> THEN <<>> ELSE Insert(Head(vals), Sort(Tail(vals)))

\* vals.length >> 1
Half(n) == n \div 2

\* med = vals[vals.length >> 1] of the sorted array (0-based in the source)
MedianLowerMiddle(vals) == Sort(vals)[((Len(vals) - 1) \div 2) + 1]
Median(vals) == Sort(vals)[Half(Len(vals)) + 1]

\* if (vals.length === 0) return 0; ...; return unit === Inches ? med / 2.54 : med
DistanceResultSentinel(loc) ==
    IF Len(loc.vals) = 0 THEN Int2Rat(-1)
    ELSE IF loc.unit = Inches THEN RDiv(Median(loc.vals), CmPerInch)
    ELSE Median(loc.vals)
DistanceResult(loc) ==
    IF Len(loc.vals) = 0 THEN Zero
    ELSE IF loc.unit = Inches THEN RDiv(Median(loc.vals), CmPerInch)
    ELSE Median(loc.vals)

\* if (cm > 0) vals.push(cm)
PushValid(loc) == IF RLess(Zero, loc.cm) THEN [loc EXCEPT !.vals = Append(@, loc.cm)] ELSE loc

\* if (dur <= 0) return 0; return dur / 58
RobustResult(dur) == IF dur <= 0 THEN Zero ELSE Rat(dur, UsPerCm)

\* steps a) to d): pre-condition low, 30 us trigger, settle, pulseIn HIGH
RobustTriggerEvents ==
    << <<"write", ultrasonic33.trig, 0>>, <<"waitMicros", 4>>,
       <<"write", ultrasonic33.trig, 1>>, <<"waitMicros", 30>>,
       <<"write", ultrasonic33.trig, 0>>,
       <<"waitMicros", ultrasonic33.settleUs>>,
       <<"pulseIn", ultrasonic33.echo, "High", ultrasonic33.maxUs>> >>

\* step e): pulseIn LOW (also the last attempt of step f)
RobustLowEventsDoubleTimeout ==
    << <<"pulseIn", ultrasonic33.echo, "Low", 2 * ultrasonic33.maxUs>> >>
RobustLowEvents ==
    << <<"pulseIn", ultrasonic33.echo, "Low", ultrasonic33.maxUs>> >>

\* step f): quick re-trigger (20 us), settle, pulseIn HIGH
RobustRetriggerEventsNoLow ==
    << <<"waitMicros", 200>>,
       <<"write", ultrasonic33.trig, 1>>, <<"waitMicros", 20>>,
       <<"waitMicros", ultrasonic33.settleUs>>,
       <<"pulseIn", ultrasonic33.echo, "High", ultrasonic33.maxUs>> >>
RobustRetriggerEventsOtherVariant ==
    << <<"waitMicros", 200>>,
       <<"write", ultrasonic33.trig, 1>>, <<"waitMicros", 20>>,
       <<"write", ultrasonic33.trig, 0>>,
       <<"waitMicros", ultrasonic33.settleUs>>,
       <<"pulseIn", ultrasonic.echo, "High", ultrasonic.maxUs>> >>
RobustRetriggerEvents ==
    << <<"waitMicros", 200>>,
       <<"write", ultrasonic33.trig, 1>>, <<"waitMicros", 20>>,
       <<"write", ultrasonic33.trig, 0>>,
       <<"waitMicros", ultrasonic33.settleUs>>,
       <<"pulseIn", ultrasonic33.echo, "High", ultrasonic33.maxUs>> >>

\* export function distance(unit, samples): samples is used as passed
CallDistance(t, unit, samples) ==
    /\ CanRun(t)
    /\ task[t].kind = "user" /\ task[t].pc = "idle"
    /\ SetTask(t, [task[t] EXCEPT !.pc = "d_loop", !.ret = Zero,
                                  !.loc = [NoLocals EXCEPT !.unit = unit, !.samples = samples]])
    /\ SetObs(t, [NoObs EXCEPT !.op = "distance", !.unit = unit, !.req = samples])
    /\ running' = t
    /\ UNCHANGED <<ultrasonic, ultrasonic33, pinLevel>>

\* for (...; i < samples; ...): the loop test, and the return after the loop
DistanceLoop(t) ==
    /\ CanRun(t)
    /\ task[t].pc = "d_loop"
    /\ IF RLess(Int2Rat(task[t].loc.i), task[t].loc.samples)
       THEN /\ SetTask(t, [task[t] EXCEPT !.pc = "r_trig"])
            /\ UNCHANGED obs
       ELSE /\ SetTask(t, [task[t] EXCEPT !.pc = "idle",
                                          !.ret = DistanceResult(task[t].loc),
                                          !.loc = NoLocals])
            /\ SetObs(t, [obs[t] EXCEPT !.done = TRUE])
    /\ running' = IF task'[t].pc = "idle" THEN 0 ELSE t
    /\ UNCHANGED <<ultrasonic, ultrasonic33, pinLevel>>

\* measureOnceCmRobust up to attempt 1, where the task waits for the echo
RobustTrigger(t) ==
    /\ CanRun(t)
    /\ task[t].pc = "r_trig"
    /\ pinLevel' = LevelAfter(pinLevel, RobustTriggerEvents)
    /\ SetTask(t, [task[t] EXCEPT !.pc = "r_p1"])
    /\ SetObs(t, [obs[t] EXCEPT !.cycles = @ + 1, !.log = RobustTriggerEvents])
    /\ running' = WhilePulseIn(t)
    /\ UNCHANGED <<ultrasonic, ultrasonic33>>

\* measureOnceCmRobust returns to distance with the conversion of dur
RobustReturn(t, dur) ==
    /\ SetTask(t, [task[t] EXCEPT !.pc = "d_acc", !.loc.dur = dur,
                                  !.loc.cm = RobustResult(dur)])
    /\ SetObs(t, [obs[t] EXCEPT !.log = Append(@, <<"echo", dur>>),
                                !.anyPos = @ \/ dur > 0,
                                !.seen = @ (+) SetToBag({IF dur > 0 THEN dur ELSE 0})])
    /\ running' = t
    /\ UNCHANGED <<ultrasonic, ultrasonic33, pinLevel>>

\* an attempt failed (dur <= 0) and the next one is begun with `events`
RobustNext(t, dur, pc, events) ==
    /\ pinLevel' = LevelAfter(pinLevel, events)
    /\ SetTask(t, [task[t] EXCEPT !.pc = pc, !.loc.dur = dur])
    /\ SetObs(t, [obs[t] EXCEPT !.log = Append(@, <<"echo", dur>>) \o events,
                                !.anyPos = @ \/ dur > 0])
    /\ running' = WhilePulseIn(t)
    /\ UNCHANGED <<ultrasonic, ultrasonic33>>

\* if (dur <= 0): the attempt gave no reading
FailedZeroOnly(dur) == dur = 0
Failed(dur) == dur <= 0

\* attempt 1 (HIGH) returns dur; if (dur <= 0) attempt 2 (LOW) is made
RobustEcho1(t, dur) ==
    /\ CanRun(t)
    /\ task[t].pc = "r_p1"
    /\ IF Failed(dur) THEN RobustNext(t, dur, "r_p2", RobustLowEvents)
       ELSE RobustReturn(t, dur)

\* attempt 2 (LOW) returns dur; if (dur <= 0) re-trigger and attempt 3 (HIGH)
RobustEcho2(t, dur) ==
    /\ CanRun(t)
    /\ task[t].pc = "r_p2"
    /\ IF Failed(dur) THEN RobustNext(t, dur, "r_p3", RobustRetriggerEvents)
       ELSE RobustReturn(t, dur)

\* attempt 3 (HIGH) returns dur; if (dur <= 0) attempt 4 (LOW) is made
RobustEcho3(t, dur) ==
    /\ CanRun(t)
    /\ task[t].pc = "r_p3"
    /\ IF Failed(dur) THEN RobustNext(t, dur, "r_p4", RobustLowEvents)
       ELSE RobustReturn(t, dur)

\* attempt 4 (LOW) returns dur, the last one
RobustEcho4(t, dur) ==
    /\ CanRun(t)
    /\ task[t].pc = "r_p4"
    /\ RobustReturn(t, dur)

\* the loop body after measureOnceCmRobust: push, then basic.pause(20)
DistanceAccumulate(t) ==
    /\ CanRun(t)
    /\ task[t].pc = "d_acc"
    /\ SetTask(t, [task[t] EXCEPT !.pc = "d_pause", !.loc = PushValid(task[t].loc)])
    /\ SetObs(t, [obs[t] EXCEPT !.pauses = @ + 1])
    /\ running' = 0
    /\ UNCHANGED <<ultrasonic, ultrasonic33, pinLevel>>

\* the pause is over: i++
DistanceResume(t) ==
    /\ CanRun(t)
    /\ task[t].pc = "d_pause"
    /\ SetTask(t, [task[t] EXCEPT !.pc = "d_loop", !.loc.i = @ + 1])
    /\ running' = t
    /\ UNCHANGED <<ultrasonic, ultrasonic33, pinLevel, obs>>

(***************************************************************************)
(* Configuration                                                           *)
(***************************************************************************)
\* _maxUs = Math.max(3000, Math.min(40000, maxMicros | 0))
ClampMaxUsNoUpper(maxMicros) == Max(3000, ToInt32(maxMicros))
ClampMaxUs(maxMicros) == Max(3000, Min(40000, ToInt32(maxMicros)))

\* _maxUs = Math.max(15000, Math.min(60000, maxMicros | 0))
ClampMaxUs33NoLower(maxMicros) == Min(60000, ToInt32(maxMicros))
ClampMaxUs33(maxMicros) == Max(15000, Min(60000, ToInt32(maxMicros)))

\* _settleUs = Math.max(100, Math.min(2000, settleMicros | 0))
ClampSettleUs(settleMicros) == Max(100, Min(2000, ToInt32(settleMicros)))

\* ultrasonic.setPins: assign, pull none, trigger low, waitMicros(5)
SetPinsResetTimeout(t, trig, echo) ==
    /\ CanRun(t)
    /\ task[t].kind = "user" /\ task[t].pc = "idle"
    /\ ultrasonic' = [ultrasonic EXCEPT !.trig = trig, !.echo = echo, !.maxUs = 25000]
    /\ pinLevel' = LevelAfter(pinLevel, << <<"setPull", echo>>, <<"write", trig, 0>>,
                                          <<"waitMicros", 5>> >>)
    /\ SetObs(t, [NoObs EXCEPT !.op = "setPins", !.done = TRUE])
    /\ running' = 0
    /\ UNCHANGED <<ultrasonic33, task>>
SetPins(t, trig, echo) ==
    /\ CanRun(t)
    /\ task[t].kind = "user" /\ task[t].pc = "idle"
    /\ ultrasonic' = [ultrasonic EXCEPT !.trig = trig, !.echo = echo]
    /\ pinLevel' = LevelAfter(pinLevel, << <<"setPull", echo>>, <<"write", trig, 0>>,
                                          <<"waitMicros", 5>> >>)
    /\ SetObs(t, [NoObs EXCEPT !.op = "setPins", !.done = TRUE])
    /\ running' = 0
    /\ UNCHANGED <<ultrasonic33, task>>

\* ultrasonic.setMaxMicros
SetMaxMicros(t, maxMicros) ==
    /\ CanRun(t)
    /\ task[t].kind = "user" /\ task[t].pc = "idle"
    /\ ultrasonic' = [ultrasonic EXCEPT !.maxUs = ClampMaxUs(maxMicros)]
    /\ SetObs(t, [NoObs EXCEPT !.op = "setMaxMicros", !.done = TRUE, !.req = maxMicros])
    /\ running' = 0
    /\ UNCHANGED <<ultrasonic33, pinLevel, task>>

\* ultrasonic33.setPins: assign, pull none, trigger low, then basic.pause(10)
SetPins33(t, trig, echo) ==
    /\ CanRun(t)
    /\ task[t].kind = "user" /\ task[t].pc = "idle"
    /\ ultrasonic33' = [ultrasonic33 EXCEPT !.trig = trig, !.echo = echo]
    /\ pinLevel' = LevelAfter(pinLevel, << <<"setPull", echo>>, <<"write", trig, 0>> >>)
    /\ SetTask(t, [task[t] EXCEPT !.pc = "sp_pause"])
    /\ SetObs(t, [NoObs EXCEPT !.op = "setPins33"])
    /\ running' = 0
    /\ UNCHANGED <<ultrasonic>>

\* the pause of ultrasonic33.setPins is over: it returns
SetPins33Return(t) ==
    /\ CanRun(t)
    /\ task[t].pc = "sp_pause"
    /\ SetTask(t, [task[t] EXCEPT !.pc = "idle"])
    /\ SetObs(t, [obs[t] EXCEPT !.done = TRUE])
    /\ running' = 0
    /\ UNCHANGED <<ultrasonic, ultrasonic33, pinLevel>>

\* ultrasonic33.setTiming
SetTiming(t, maxMicros, settleMicros) ==
    /\ CanRun(t)
    /\ task[t].kind = "user" /\ task[t].pc = "idle"
    /\ ultrasonic33' = [ultrasonic33 EXCEPT !.maxUs = ClampMaxUs33(maxMicros),
                                            !.settleUs = ClampSettleUs(settleMicros)]
    /\ SetObs(t, [NoObs EXCEPT !.op = "setTiming", !.done = TRUE, !.req = maxMicros,
                               !.req2 = settleMicros])
    /\ running' = 0
    /\ UNCHANGED <<ultrasonic, pinLevel, task>>

(***************************************************************************)
(* Threshold watcher                                                       *)
(***************************************************************************)
\* threshold = Math.max(2, Math.min(400, threshold | 0))
ClampThreshold(threshold) == Max(2, Min(400, ToInt32(threshold)))

\* if (cm > 0 && cm < threshold) handler(cm)
FiresNoValidCheck(cm, threshold) == RLess(cm, Int2Rat(threshold))
Fires(cm, threshold) == RLess(Zero, cm) /\ RLess(cm, Int2Rat(threshold))

\* the slot control.inBackground gives the new task: the first free one
FreeSlot(w) == task[w].kind = "free" /\ \A v \in Tasks : task[v].kind = "free" => w <= v

\* the task control.inBackground creates: while (true) { ... }
WatcherTask(threshold, handler) ==
    [kind |-> "watcher", pc |-> "w_poll", loc |-> NoLocals,
     threshold |-> ClampThreshold(threshold), handler |-> handler, ret |-> Zero]

\* export function onDistanceLessThan(threshold, handler): both branches of
\* if (_polling) start a new background task with control.inBackground
OnDistanceLessThanShared(t, threshold, handler) ==
    /\ CanRun(t)
    /\ task[t].kind = "user" /\ task[t].pc = "idle"
    /\ \E w \in Tasks :
          /\ IF ultrasonic.polling
             THEN /\ task[w].kind = "watcher"
                  /\ task' = [task EXCEPT ![w].threshold = ClampThreshold(threshold),
                                          ![w].handler = handler]
                  /\ obs' = [obs EXCEPT ![0].regs = Append(@, <<w, threshold, handler>>)]
             ELSE /\ FreeSlot(w)
                  /\ task' = [task EXCEPT ![w] = WatcherTask(threshold, handler)]
                  /\ obs' = [obs EXCEPT ![w] = [NoObs EXCEPT !.req2 = threshold],
                                        ![0].regs = Append(@, <<w, threshold, handler>>)]
    /\ ultrasonic' = [ultrasonic EXCEPT !.polling = TRUE]
    /\ running' = 0
    /\ UNCHANGED <<ultrasonic33, pinLevel>>
OnDistanceLessThan(t, threshold, handler) ==
    /\ CanRun(t)
    /\ task[t].kind = "user" /\ task[t].pc = "idle"
    /\ \E w \in Tasks :
          /\ FreeSlot(w)
          /\ task' = [task EXCEPT ![w] = WatcherTask(threshold, handler)]
          /\ obs' = [obs EXCEPT ![t] = [NoObs EXCEPT !.op = "onDistanceLessThan",
                                                     !.done = TRUE, !.req = threshold],
                                ![w] = [NoObs EXCEPT !.req2 = threshold],
                                ![0].regs = Append(@, <<w, threshold, handler>>)]
    /\ IF ultrasonic.polling
       THEN UNCHANGED ultrasonic
       ELSE ultrasonic' = [ultrasonic EXCEPT !.polling = TRUE]
    /\ running' = 0
    /\ UNCHANGED <<ultrasonic33, pinLevel>>

\* const cm = distanceCm(): the watcher enters read(Unit.Centimeters, 1)
WatcherPoll(w) ==
    /\ CanRun(w)
    /\ task[w].kind = "watcher" /\ task[w].pc = "w_poll"
    /\ SetTask(w, ReadEntry(task[w], Centimeters, Int2Rat(1)))
    /\ SetObs(w, [ReadObs(Centimeters, Int2Rat(1)) EXCEPT !.req2 = obs[w].req2])
    /\ running' = w
    /\ UNCHANGED <<ultrasonic, ultrasonic33, pinLevel>>

\* read returned cm: the handler is called with it, or the task pauses 50 ms
WatcherCheck(w) ==
    /\ CanRun(w)
    /\ task[w].pc = "w_check"
    /\ IF Fires(task[w].ret, task[w].threshold)
       THEN /\ SetTask(w, [task[w] EXCEPT !.pc = "w_handler", !.loc.cm = task[w].ret])
            /\ running' = w
            /\ UNCHANGED obs
       ELSE /\ SetTask(w, [task[w] EXCEPT !.pc = "w_pause", !.loc.cm = task[w].ret])
            /\ SetObs(w, [NoObs EXCEPT !.req2 = obs[w].req2])
            /\ running' = 0
    /\ UNCHANGED <<ultrasonic, ultrasonic33, pinLevel>>

\* the handler returns and the task pauses 50 ms
HandlerReturn(w) ==
    /\ CanRun(w)
    /\ task[w].pc = "w_handler"
    /\ SetTask(w, [task[w] EXCEPT !.pc = "w_pause"])
    /\ SetObs(w, [NoObs EXCEPT !.req2 = obs[w].req2])
    /\ running' = 0
    /\ UNCHANGED <<ultrasonic, ultrasonic33, pinLevel>>

\* the pause is over: the next iteration of while (true)
WatcherResumeOnce(w) ==
    /\ CanRun(w)
    /\ task[w].pc = "w_pause"
    /\ SetTask(w, FreeTask)
    /\ running' = 0
    /\ UNCHANGED <<ultrasonic, ultrasonic33, pinLevel, obs>>
WatcherResume(w) ==
    /\ CanRun(w)
    /\ task[w].pc = "w_pause"
    /\ SetTask(w, [task[w] EXCEPT !.pc = "w_poll", !.loc = NoLocals])
    /\ running' = w
    /\ UNCHANGED <<ultrasonic, ultrasonic33, pinLevel, obs>>

(***************************************************************************)
(* Inputs                                                                  *)
(***************************************************************************)
\* arguments `samples` of read: integers around [1, 10] and a fraction
SampleArgs == {Int2Rat(n) : n \in -1..MaxSamplesArg} \cup {Rat(5, 2)}
\* arguments `samples` of distance
SampleArgs33 == {Int2Rat(n) : n \in -1..MaxSamples33} \cup {Rat(5, 2)}
\* durations pulseIn returns to the standard variant: 10 cm, 20 cm, failures
StdPulses == {-1, 0, 580, 1160}
\* durations pulseIn returns to the robust variant: 10, 20, 30, 40 cm, failures
RobustPulses == {-1, 0, 580, 1160, 1740, 2320}

\* steps inside read / measureOnceCm, with pulseIn returning a value of P
ReadSteps(t, P) ==
    \/ ReadLoop(t)
    \/ MeasureTrigger(t)
    \/ \E d \in P : MeasureEcho(t, d)
    \/ ReadAccumulate(t)
    \/ ReadResume(t)

\* steps inside distance / measureOnceCmRobust, with pulseIn returning a value of P
DistanceSteps(t, P) ==
    \/ DistanceLoop(t)
    \/ RobustTrigger(t)
    \/ \E d \in P : RobustEcho1(t, d)
    \/ \E d \in P : RobustEcho2(t, d)
    \/ \E d \in P : RobustEcho3(t, d)
    \/ \E d \in P : RobustEcho4(t, d)
    \/ DistanceAccumulate(t)
    \/ DistanceResume(t)

(***************************************************************************)
(* Spec: the main program makes aggregate measurement calls of both        *)
(* variants, one after the other.                                          *)
(***************************************************************************)
Next ==
    \E t \in Tasks :
        \/ \E u \in Units, n \in SampleArgs : CallRead(t, u, n)
        \/ CallDistanceCm(t)
        \/ ReadSteps(t, StdPulses)
        \/ \E u \in Units, n \in SampleArgs33 : CallDistance(t, u, n)
        \/ DistanceSteps(t, RobustPulses)

Spec == Init /\ [][Next]_vars

(***************************************************************************)
(* Reading the history                                                     *)
(***************************************************************************)
IsPulseIn(e) == e[1] = "pulseIn"
IsEcho(e) == e[1] = "echo"
IsTrigHigh(e) == e[1] = "write" /\ e[3] = 1
IsTrigOrPulseIn(e) == IsTrigHigh(e) \/ IsPulseIn(e)

\* the pulse measurements begun, the durations returned, the trigger pulses
PulseCalls(log) == SelectSeq(log, IsPulseIn)
Echoes(log) == SelectSeq(log, IsEcho)
TrigHighs(log) == SelectSeq(log, IsTrigHigh)
\* the trigger pulses and pulse measurements in the order made: "trig", "High", "Low"
Ladder(log) ==
    LET es == SelectSeq(log, IsTrigOrPulseIn)
    IN [j \in 1..Len(es) |-> IF IsTrigHigh(es[j]) THEN "trig" ELSE es[j][3]]
IsPrefix(a, b) == Len(a) <= Len(b) /\ \A j \in 1..Len(a) : a[j] = b[j]

\* the call of operation op by task t has returned
Returned(t, op) == obs[t].op = op /\ obs[t].done

\* over the durations S of bag b: their sum and their number, with multiplicity
RECURSIVE DurSum(_, _)
DurSum(b, S) ==
    IF S = {} THEN 0
    ELSE LET x == CHOOSE y \in S : TRUE IN x * CopiesIn(x, b) + DurSum(b, S \ {x})
RECURSIVE DurCount(_, _)
DurCount(b, S) ==
    IF S = {} THEN 0
    ELSE LET x == CHOOSE y \in S : TRUE IN CopiesIn(x, b) + DurCount(b, S \ {x})
\* the positive (valid) durations of a bag
ValidSet(b) == {x \in BagToSet(b) : x > 0}
ValidCount(b) == DurCount(b, ValidSet(b))
ValidSum(b) == DurSum(b, ValidSet(b))
\* a number q equals n/d (d > 0), stated without reduction to lowest terms
EqualsFraction(q, n, d) == q[1] * d = n * q[2]
\* the last duration pulseIn returned in the current single-shot measurement
LastEcho(log) == Echoes(log)[Len(Echoes(log))][2]

(***************************************************************************)
(* Claims checked under Spec                                               *)
(***************************************************************************)
\* C1: in both variants, for every sample count and unit, a call during which no
\* pulse measurement returned a positive duration returns exactly 0.
C1_AllFailedReturnsZero ==
    \A t \in Tasks :
        (Returned(t, "read") \/ Returned(t, "distance")) /\ ~obs[t].anyPos
            => task[t].ret = Zero

\* C1 witness: a robust call in inches made two single-shot measurements, all of
\* their eight pulse measurements failed, and it returned 0.
C1_Witness ==
    \E t \in Tasks :
        /\ Returned(t, "distance") /\ obs[t].unit = Inches
        /\ obs[t].cycles = 2 /\ ~obs[t].anyPos /\ task[t].ret = Zero

\* C2: read(Centimeters, n) returns the arithmetic mean of exactly the valid (> 0)
\* samples: the sum of the valid durations / 58, divided by their number.
C2_MeanOfValidSamples ==
    \A t \in Tasks :
        Returned(t, "read") /\ obs[t].unit = Centimeters /\ ValidCount(obs[t].seen) > 0
            => EqualsFraction(task[t].ret, ValidSum(obs[t].seen),
                              UsPerCm * ValidCount(obs[t].seen))

\* C2 witness: the samples 10, 0, 20 (in some order) gave 15.
C2_Witness ==
    \E t \in Tasks :
        /\ Returned(t, "read") /\ obs[t].unit = Centimeters
        /\ obs[t].seen = SetToBag({580, 0, 1160})
        /\ task[t].ret = Int2Rat(15)

\* C3: distance(Centimeters, n) with k >= 1 valid samples returns the element at
\* index floor(k/2) of the valid samples in ascending order: the valid sample x with
\* at most floor(k/2) valid samples below it and more than floor(k/2) not above it.
C3_UpperMedian ==
    \A t \in Tasks :
        Returned(t, "distance") /\ obs[t].unit = Centimeters /\ ValidCount(obs[t].seen) > 0
            => \E x \in ValidSet(obs[t].seen) :
                  LET b == obs[t].seen
                      k == ValidCount(b)
                      below == DurCount(b, {y \in ValidSet(b) : y < x})
                      upto == DurCount(b, {y \in ValidSet(b) : y <= x})
                  IN /\ below <= k \div 2 /\ k \div 2 < upto
                     /\ EqualsFraction(task[t].ret, x, UsPerCm)

\* C3 witness: the samples 10, 20, 30, 40 (in some order) gave 30, not 25.
C3_Witness ==
    \E t \in Tasks :
        /\ Returned(t, "distance") /\ obs[t].unit = Centimeters
        /\ obs[t].seen = SetToBag({580, 1160, 1740, 2320})
        /\ task[t].ret = Int2Rat(30)

\* C4: one measureOnceCmRobust call makes at most 4 pulse measurements and 2 trigger
\* pulses, in the order trigger, HIGH, LOW, re-trigger, HIGH, LOW; an attempt is made
\* only after every earlier one returned <= 0; the call returns the first positive
\* duration / 58, and 0 exactly when all four attempts returned <= 0.
C4_RetryLadder ==
    \A t \in Tasks :
        obs[t].op = "distance" =>
            LET log == obs[t].log
                calls == PulseCalls(log)
                echoes == Echoes(log)
            IN /\ Len(calls) <= 4 /\ Len(TrigHighs(log)) <= 2
               /\ IsPrefix(Ladder(log), <<"trig", "High", "Low", "trig", "High", "Low">>)
               /\ Len(echoes) <= Len(calls) /\ Len(calls) <= Len(echoes) + 1
               /\ \A j \in 1..(Len(calls) - 1) : echoes[j][2] <= 0
               /\ task[t].pc = "d_acc" =>
                     /\ Len(echoes) = Len(calls)
                     /\ LastEcho(log) > 0
                            => EqualsFraction(task[t].loc.cm, LastEcho(log), UsPerCm)
                     /\ task[t].loc.cm = Zero
                            <=> Len(echoes) = 4 /\ \A j \in 1..4 : echoes[j][2] <= 0

\* C4 witness: a call returned after three failed attempts with the fourth positive.
C4_Witness ==
    \E t \in Tasks :
        /\ task[t].pc = "d_acc" /\ Len(Echoes(obs[t].log)) = 4
        /\ LastEcho(obs[t].log) = 1160 /\ task[t].loc.cm = Int2Rat(20)
        /\ Ladder(obs[t].log) = <<"trig", "High", "Low", "trig", "High", "Low">>

\* C6: read(unit, samples) with an integer samples performs exactly
\* clamp(samples, 1, 10) trigger-and-measure cycles.
C6_ReadCyclesClamped ==
    \A t \in Tasks :
        Returned(t, "read") /\ IsInteger(obs[t].req)
            => obs[t].cycles = (IF obs[t].req[1] < 1 THEN 1
                                ELSE IF obs[t].req[1] > 10 THEN 10 ELSE obs[t].req[1])

\* C6 witness: a request for 12 samples performed 10 cycles.
C6_Witness ==
    \E t \in Tasks : Returned(t, "read") /\ obs[t].req = Int2Rat(12) /\ obs[t].cycles = 10

\* C7: distance(unit, samples) with an integer samples performs exactly
\* clamp(samples, 1, 9) measureOnceCmRobust cycles.
C7_DistanceCyclesClamped ==
    \A t \in Tasks :
        Returned(t, "distance") /\ IsInteger(obs[t].req)
            => obs[t].cycles = (IF obs[t].req[1] < 1 THEN 1
                                ELSE IF obs[t].req[1] > 9 THEN 9 ELSE obs[t].req[1])

\* C10: a single-shot measurement of either variant returns 0 when its final pulse
\* duration d is <= 0 and d / 58 when d > 0 (580 gives 10); the value returned is 0
\* if and only if no positive duration was obtained.
C10_PulseToCm ==
    \A t \in Tasks :
        task[t].pc \in {"rd_acc", "d_acc"} =>
            LET d == LastEcho(obs[t].log)
                cm == task[t].loc.cm
            IN /\ d <= 0 => cm = Zero
               /\ d > 0 => EqualsFraction(cm, d, UsPerCm)
               /\ d = 580 => cm = Int2Rat(10)
               /\ cm = Zero <=> \A j \in 1..Len(Echoes(obs[t].log)) :
                                    Echoes(obs[t].log)[j][2] <= 0

\* C10 witness: measureOnceCm measured 580 us and returned 10.
C10_Witness ==
    \E t \in Tasks :
        /\ task[t].pc = "rd_acc" /\ obs[t].op = "read"
        /\ LastEcho(obs[t].log) = 580 /\ task[t].loc.cm = Int2Rat(10)

\* C13: within one call of read or distance the samples are strictly sequential: the
\* step that triggers sample number k + 1 is taken only when the pulse measurements of
\* all k earlier samples have returned and the k pauses after them were taken.
C13_SamplesSequential ==
    [][\A t \in Tasks :
          obs'[t].cycles = obs[t].cycles + 1 =>
              /\ BagCardinality(obs[t].seen) = obs[t].cycles
              /\ obs[t].pauses = obs[t].cycles
              /\ task[t].loc.i = obs[t].cycles]_vars

\* C13 witness: the third sample of a read has been triggered after two returned
\* measurements and two pauses; its pulse measurement is pending.
C13_Witness ==
    \E t \in Tasks :
        /\ obs[t].op = "read" /\ task[t].pc = "m_pulse"
        /\ obs[t].cycles = 3 /\ obs[t].pauses = 2
        /\ BagCardinality(obs[t].seen) = 2

(***************************************************************************)
(* SpecCfg: the main program reconfigures both variants with arbitrary     *)
(* arguments, between single-sample measurement calls.                     *)
(***************************************************************************)
\* maxMicros arguments: below, on, between and above the bounds, and a fraction
MaxMicrosArgs ==
    {Int2Rat(m) : m \in {2999, 3000, 5000, 15000, 40000, 50000, 60000, 60001}}
        \cup {Rat(50001, 2)}
\* settleMicros arguments
SettleArgs == {Int2Rat(m) : m \in {99, 100, 2000, 2001}} \cup {Rat(1201, 2)}
\* (trig, echo) arguments of setPins
PinArgs == {<<"P1", "P2">>, <<"P2", "P0">>}
\* durations pulseIn returns while the configuration is exercised
CfgPulses == {0, 580}

NextCfg ==
    \E t \in Tasks :
        \/ \E p \in PinArgs : SetPins(t, p[1], p[2])
        \/ \E m \in MaxMicrosArgs : SetMaxMicros(t, m)
        \/ \E p \in PinArgs : SetPins33(t, p[1], p[2])
        \/ SetPins33Return(t)
        \/ \E m \in MaxMicrosArgs, st \in SettleArgs : SetTiming(t, m, st)
        \/ CallDistanceCm(t)
        \/ ReadSteps(t, CfgPulses)
        \/ CallDistance(t, Centimeters, Int2Rat(1))
        \/ DistanceSteps(t, CfgPulses)

SpecCfg == Init /\ [][NextCfg]_vars

\* the nearest value of [lo, hi] to the integer m
Nearest(m, lo, hi) == IF m < lo THEN lo ELSE IF m > hi THEN hi ELSE m

\* C8: in every reachable state each variant's stored timeout is within
\* [3000, 60000] and the robust variant's settle time within [100, 2000].
C8_ConfigInRange ==
    /\ 3000 <= ultrasonic.maxUs /\ ultrasonic.maxUs <= 60000
    /\ 3000 <= ultrasonic33.maxUs /\ ultrasonic33.maxUs <= 60000
    /\ 100 <= ultrasonic33.settleUs /\ ultrasonic33.settleUs <= 2000

\* C8 witness: after setMaxMicros and setTiming were called with arguments outside the
\* ranges (and a measurement was made since), setTiming(60001, 99) has returned.
C8_Witness ==
    \E t \in Tasks :
        /\ Returned(t, "setTiming")
        /\ obs[t].req = Int2Rat(60001) /\ obs[t].req2 = Int2Rat(99)
        /\ ultrasonic33.maxUs = 60000 /\ ultrasonic33.settleUs = 100
        /\ ultrasonic.maxUs = 3000
        /\ ultrasonic.trig = "P2"

\* C9 as claimed: both variants store the timeout argument clamped to [3000, 60000],
\* and the robust variant the settle argument clamped to [100, 2000].
C9_ClampedTo3000_60000 ==
    \A t \in Tasks :
        /\ Returned(t, "setMaxMicros") /\ IsInteger(obs[t].req)
              => ultrasonic.maxUs = Nearest(obs[t].req[1], 3000, 60000)
        /\ Returned(t, "setTiming") /\ IsInteger(obs[t].req)
              => ultrasonic33.maxUs = Nearest(obs[t].req[1], 3000, 60000)
        /\ Returned(t, "setTiming") /\ IsInteger(obs[t].req2)
              => ultrasonic33.settleUs = Nearest(obs[t].req2[1], 100, 2000)

\* C9 amended: setMaxMicros stores the integer argument clamped to [3000, 40000],
\* setTiming stores the integer timeout clamped to [15000, 60000] and the integer
\* settle time clamped to [100, 2000].
C9_ClampedPerVariant ==
    \A t \in Tasks :
        /\ Returned(t, "setMaxMicros") /\ IsInteger(obs[t].req)
              => ultrasonic.maxUs = Nearest(obs[t].req[1], 3000, 40000)
        /\ Returned(t, "setTiming") /\ IsInteger(obs[t].req)
              => ultrasonic33.maxUs = Nearest(obs[t].req[1], 15000, 60000)
        /\ Returned(t, "setTiming") /\ IsInteger(obs[t].req2)
              => ultrasonic33.settleUs = Nearest(obs[t].req2[1], 100, 2000)

\* C9 witness: setTiming(5000, 2001) stored 15000 and 2000 while the standard variant
\* holds 40000 from an earlier setMaxMicros.
C9_Witness ==
    \E t \in Tasks :
        /\ Returned(t, "setTiming")
        /\ obs[t].req = Int2Rat(5000) /\ obs[t].req2 = Int2Rat(2001)
        /\ ultrasonic33.maxUs = 15000 /\ ultrasonic33.settleUs = 2000
        /\ ultrasonic.maxUs = 40000

\* the timeouts passed to the pulse measurements of a log, summed
RECURSIVE TimeoutSum(_)
TimeoutSum(log) ==
    IF log = <<>> THEN 0
    ELSE (IF IsPulseIn(Head(log)) THEN Head(log)[4] ELSE 0) + TimeoutSum(Tail(log))
\* the settle delays of a log (the wait right before a pulse measurement), summed
SettleSum(log) ==
    LET S == {j \in 1..(Len(log) - 1) : log[j][1] = "waitMicros" /\ IsPulseIn(log[j + 1])}
        RECURSIVE Sum(_)
        Sum(T) == IF T = {} THEN 0
                  ELSE LET j == CHOOSE k \in T : TRUE IN log[j][2] + Sum(T \ {j})
    IN Sum(S)

\* C15 as claimed: when a call of measureOnceCmRobust has returned, the timeouts passed
\* to its pulse measurements plus the settle delays it waited sum to at most
\* 2 * maxWaitMicros + 2 * settleMicros.
C15_BudgetTwoTimeouts ==
    \A t \in Tasks :
        task[t].pc = "d_acc" =>
            TimeoutSum(obs[t].log) + SettleSum(obs[t].log)
                <= 2 * ultrasonic33.maxUs + 2 * ultrasonic33.settleUs

\* C15 amended: the call made n pulse measurements, 1 <= n <= 4, each with the stored
\* timeout, and one settle delay (two if n > 2), so the sum is at most
\* 4 * maxWaitMicros + 2 * settleMicros; n is 4 exactly when the first three failed.
C15_BudgetFourTimeouts ==
    \A t \in Tasks :
        task[t].pc = "d_acc" =>
            LET log == obs[t].log
                n == Len(PulseCalls(log))
                es == Echoes(log)
            IN /\ n \in 1..4
               /\ TimeoutSum(log) = n * ultrasonic33.maxUs
               /\ SettleSum(log) = (IF n > 2 THEN 2 ELSE 1) * ultrasonic33.settleUs
               /\ TimeoutSum(log) + SettleSum(log)
                     <= 4 * ultrasonic33.maxUs + 2 * ultrasonic33.settleUs
               /\ n = 4 <=> (\A j \in 1..3 : j <= Len(es) /\ es[j][2] <= 0)

\* C15 witness: with timeout 60000 and settle time 2000 stored by setTiming, a call
\* whose first three attempts failed has returned: 4 * 60000 + 2 * 2000 microseconds.
C15_Witness ==
    \E t \in Tasks :
        /\ task[t].pc = "d_acc"
        /\ ultrasonic33.maxUs = 60000 /\ ultrasonic33.settleUs = 2000
        /\ TimeoutSum(obs[t].log) + SettleSum(obs[t].log) = 244000

\* the writes to pins of a log, in the order made
IsWrite(e) == e[1] = "write"
Writes(log) == SelectSeq(log, IsWrite)

\* C16: when the standard variant's measureOnceCm has returned it has driven the stored
\* trigger pin low, high, low exactly once, then made exactly one pulse measurement, of
\* the HIGH level on the stored echo pin with the stored timeout, which returned once:
\* no LOW measurement and no second trigger, also when the measurement failed.
C16_OneTriggerOneHighPulse ==
    \A t \in Tasks :
        task[t].pc = "rd_acc" =>
            LET log == obs[t].log
            IN /\ Writes(log) = << <<"write", ultrasonic.trig, 0>>,
                                   <<"write", ultrasonic.trig, 1>>,
                                   <<"write", ultrasonic.trig, 0>> >>
               /\ PulseCalls(log) =
                     << <<"pulseIn", ultrasonic.echo, "High", ultrasonic.maxUs>> >>
               /\ Ladder(log) = <<"trig", "High">>
               /\ Len(Echoes(log)) = 1
               /\ IsEcho(log[Len(log)])

\* C16 witness: after setMaxMicros stored 3000 and setPins stored P2 and P0, a
\* measurement whose only pulse measurement failed has returned.
C16_Witness ==
    \E t \in Tasks :
        /\ task[t].pc = "rd_acc"
        /\ ultrasonic.maxUs = 3000 /\ ultrasonic.trig = "P2" /\ ultrasonic.echo = "P0"
        /\ LastEcho(obs[t].log) = 0
        /\ task[t].loc.cm = Zero

\* the stored pins and the stored timings of the two variants
StdPins == <<ultrasonic.trig, ultrasonic.echo>>
StdTiming == ultrasonic.maxUs
RobustPins == <<ultrasonic33.trig, ultrasonic33.echo>>
RobustTiming == <<ultrasonic33.maxUs, ultrasonic33.settleUs>>
\* the program locations inside read, distanceCm, distance and the single shots
MeasurementPcs ==
    {"rd_loop", "m_trig", "m_pulse", "rd_acc", "rd_pause",
     "d_loop", "r_trig", "r_p1", "r_p2", "r_p3", "r_p4", "d_acc", "d_pause"}
\* the step belongs to operation op, called or continued by task t (every call
\* records its operation in the history of the calling task)
Calls(t, op) == obs'[t].op = op /\ task[t].kind = "user"

\* C18: a step of a measurement operation changes no stored pin or timing of either
\* variant; stored values change only in a step of the operation that sets them:
\* the standard pins by ultrasonic.setPins, the standard timeout by setMaxMicros, the
\* robust pins by ultrasonic33.setPins, the robust timeout and settle time by setTiming,
\* and such a step changes nothing else of its variant and nothing of the other variant.
C18_Frame ==
    [][/\ (\E t \in Tasks : task[t].pc \in MeasurementPcs \/ task'[t].pc \in MeasurementPcs)
             => <<StdPins, StdTiming, RobustPins, RobustTiming>>'
                    = <<StdPins, StdTiming, RobustPins, RobustTiming>>
       /\ StdPins' # StdPins
             => /\ \E t \in Tasks : Calls(t, "setPins")
                /\ <<StdTiming, RobustPins, RobustTiming>>' = <<StdTiming, RobustPins, RobustTiming>>
       /\ StdTiming' # StdTiming
             => /\ \E t \in Tasks : Calls(t, "setMaxMicros")
                /\ <<StdPins, RobustPins, RobustTiming>>' = <<StdPins, RobustPins, RobustTiming>>
       /\ RobustPins' # RobustPins
             => /\ \E t \in Tasks : Calls(t, "setPins33")
                /\ <<StdPins, StdTiming, RobustTiming>>' = <<StdPins, StdTiming, RobustTiming>>
       /\ RobustTiming' # RobustTiming
             => /\ \E t \in Tasks : Calls(t, "setTiming")
                /\ <<StdPins, StdTiming, RobustPins>>' = <<StdPins, StdTiming, RobustPins>>
       /\ (\E t \in Tasks : Calls(t, "setPins")) => StdTiming' = StdTiming
       /\ (\E t \in Tasks : Calls(t, "setPins33")) => RobustTiming' = RobustTiming
       /\ (\E t \in Tasks : Calls(t, "setMaxMicros")) => StdPins' = StdPins
       /\ (\E t \in Tasks : Calls(t, "setTiming")) => RobustPins' = RobustPins]_vars

\* C18 witness: ultrasonic.setPins has just stored P2 and P0 while the timeout 3000
\* stored earlier by setMaxMicros and the robust variant's pins P2, P0 and timings
\* 60000, 100 stored earlier are as they were.
C18_Witness ==
    \E t \in Tasks :
        /\ Returned(t, "setPins")
        /\ StdPins = <<"P2", "P0">> /\ StdTiming = 3000
        /\ RobustPins = <<"P2", "P0">> /\ RobustTiming = <<60000, 100>>

(***************************************************************************)
(* SpecWatch: the main program registers threshold watchers, which poll    *)
(* concurrently under the cooperative scheduler.                           *)
(***************************************************************************)
\* threshold arguments: below 2, inside [2, 400], above 400, and a fraction
ThresholdArgs == {Int2Rat(0), Int2Rat(10), Int2Rat(1000), Rat(5, 2)}
\* durations pulseIn returns to the watchers: failure, 1 cm, 10 cm, 400 cm
WatchPulses == {0, 58, 580, 23200}

WatcherSteps(w) ==
    \/ WatcherPoll(w)
    \/ WatcherCheck(w)
    \/ HandlerReturn(w)
    \/ WatcherResume(w)

NextWatch ==
    \E t \in Tasks :
        \/ \E th \in ThresholdArgs : OnDistanceLessThan(t, th, "h1")
        \/ WatcherSteps(t)
        \/ ReadSteps(t, WatchPulses)

SpecWatch == Init /\ [][NextWatch]_vars

\* C5: whenever a watcher's handler is invoked, its argument is the measurement cm of
\* that poll iteration, cm > 0 and cm < the registered threshold clamped to [2, 400];
\* it is never invoked for a failed reading, nor with a value <= 0 or >= 400.
C5_HandlerOnlyBelowThreshold ==
    \A w \in Tasks :
        task[w].pc = "w_handler" =>
            LET cm == task[w].loc.cm
                raw == obs[w].req2
                clamped == IF RLess(raw, Int2Rat(2)) THEN Int2Rat(2)
                           ELSE IF RLess(Int2Rat(400), raw) THEN Int2Rat(400) ELSE raw
            IN /\ Returned(w, "read") /\ obs[w].cycles = 1
               /\ \E d \in BagToSet(obs[w].seen) :
                     /\ obs[w].seen = SetToBag({d})
                     /\ d > 0 /\ EqualsFraction(cm, d, UsPerCm)
               /\ RLess(Zero, cm) /\ RLess(cm, clamped)
               /\ RLess(cm, Int2Rat(400))
               /\ 2 <= task[w].threshold /\ task[w].threshold <= 400

\* C5 witness: a watcher registered with threshold 1000 calls its handler with 10 cm
\* while a second watcher exists.
C5_Witness ==
    \E w, v \in Tasks :
        /\ w # v /\ task[v].kind = "watcher"
        /\ task[w].pc = "w_handler" /\ obs[w].req2 = Int2Rat(1000)
        /\ task[w].threshold = 400 /\ task[w].loc.cm = Int2Rat(10)

(***************************************************************************)
(* SpecReg: the main program registers watchers with different thresholds  *)
(* and handlers while the watchers already registered poll.                *)
(***************************************************************************)
\* handlers passed to onDistanceLessThan
Handlers == {"h1", "h2"}
\* threshold arguments of the registrations
RegThresholdArgs == {Int2Rat(0), Int2Rat(10), Int2Rat(1000)}
\* durations pulseIn returns to the registered watchers: failure, 1 cm, 10 cm
RegPulses == {0, 58, 580}

NextReg ==
    \E t \in Tasks :
        \/ \E th \in RegThresholdArgs, h \in Handlers : OnDistanceLessThan(t, th, h)
        \/ WatcherSteps(t)
        \/ ReadSteps(t, RegPulses)

SpecReg == Init /\ [][NextReg]_vars

\* the polling tasks
Watchers == {w \in Tasks : task[w].kind = "watcher"}

LivePulses == {0, 58}

\* the steps of task t once it was started or called
TaskSteps(t) == WatcherSteps(t) \/ ReadSteps(t, LivePulses)

NextLive ==
    \E t \in Tasks :
        \/ OnDistanceLessThan(t, Int2Rat(10), "h1")
        \/ SetPins(t, "P1", "P0")
        \/ SetMaxMicros(t, Int2Rat(5000))
        \/ TaskSteps(t)

SpecLive == Init /\ [][NextLive]_vars /\ \A t \in Tasks : SF_vars(TaskSteps(t))

\* C12: a registered watcher stays a watcher forever, and from any moment on it
\* reaches a new pulse measurement and later the pause that ends the iteration, so it
\* measures infinitely often, whatever registrations, setPins and setMaxMicros of the
\* main program are interleaved.
C12_WatcherPollsForever ==
    \A w \in Tasks :
        /\ [](task[w].kind = "watcher" => [](task[w].kind = "watcher"))
        /\ [](task[w].kind = "watcher" => <>(task[w].pc = "m_pulse"))
        /\ [](task[w].kind = "watcher" => <>(task[w].pc = "w_pause"))

\* C12 witness: after setMaxMicros and then setPins of the main program, one watcher
\* is in its handler and another is inside a pulse measurement.
C12_Witness ==
    /\ ultrasonic.maxUs = 5000 /\ \E t \in Tasks : Returned(t, "setPins")
    /\ \E v, w \in Watchers :
          /\ v # w
          /\ task[v].pc = "w_handler"
          /\ task[w].pc = "m_pulse"

\* C14: nothing serialises the measurements of different watchers: whenever one
\* watcher waits in its echo pulse measurement and another one has reached the trigger
\* sequence of its own measurement, that trigger sequence can be driven at once.
C14_NoSerialisation ==
    \A v, w \in Watchers :
        (v # w /\ task[v].pc = "m_pulse" /\ task[w].pc = "m_trig" /\ running = w)
            => ENABLED MeasureTrigger(w)

\* C14 witness: watcher w has driven the trigger pin (its log is the trigger sequence
\* and its pulse measurement is pending) while watcher v, triggered earlier, still
\* waits in its own pulse measurement.
C14_Witness ==
    \E v, w \in Watchers :
        /\ v < w
        /\ task[v].pc = "m_pulse" /\ obs[v].log = StdTriggerEvents
        /\ task[w].pc = "m_pulse" /\ obs[w].log = StdTriggerEvents

(***************************************************************************)
(* SpecRace: one task of the program measures with both variants while a   *)
(* second task of the program reconfigures them.                           *)
(***************************************************************************)
\* the measuring task and the reconfiguring task
Measurer == 1
Configurer == 2
\* durations pulseIn returns: failure and 10 cm
RacePulses == {0, 580}

InitRace ==
    /\ ultrasonic = [trig |-> "P1", echo |-> "P0", maxUs |-> 25000, polling |-> FALSE]
    /\ ultrasonic33 = [trig |-> "P1", echo |-> "P2", maxUs |-> 40000, settleUs |-> 600]
    /\ pinLevel = [p \in Pins |-> 0]
    /\ task = [t \in Tasks |-> IF t \in {Measurer, Configurer} THEN UserTask ELSE FreeTask]
    /\ running = 0
    /\ obs = [t \in {0} \cup Tasks |-> IF t = 0 THEN NoRegs ELSE NoObs]

NextRace ==
    \/ CallRead(Measurer, Centimeters, Int2Rat(2))
    \/ CallDistance(Measurer, Centimeters, Int2Rat(1))
    \/ ReadSteps(Measurer, RacePulses)
    \/ DistanceSteps(Measurer, RacePulses)
    \/ SetPins(Configurer, "P2", "P1")
    \/ SetMaxMicros(Configurer, Int2Rat(5000))
    \/ SetPins33(Configurer, "P2", "P0")
    \/ SetPins33Return(Configurer)
    \/ SetTiming(Configurer, Int2Rat(15000), Int2Rat(100))

SpecRace == InitRace /\ [][NextRace]_vars

\* task t is waiting in a pulse measurement
InPulseIn(t) == task[t].pc \in {"m_pulse", "r_p1", "r_p2", "r_p3", "r_p4"}

\* C17: every step that begins a pulse measurement, a first or a later attempt of
\* measureOnceCmRobust or a sample of read, passes the echo pin and the timeout stored
\* in its variant at that step, whatever another task stored since the call or the
\* previous attempt began, and a re-trigger drives the trigger pin stored at that step.
C17_NextAttemptUsesStored ==
    [][\A t \in Tasks :
          (InPulseIn(t)' /\ task'[t].pc # task[t].pc) =>
              LET calls == PulseCalls(obs'[t].log)
                  last == calls[Len(calls)]
                  highs == TrigHighs(obs'[t].log)
                  N == IF task'[t].pc = "m_pulse" THEN ultrasonic ELSE ultrasonic33
              IN /\ last[2] = N.echo /\ last[4] = N.maxUs
                 /\ task'[t].pc \in {"m_pulse", "r_p1", "r_p3"}
                       => highs[Len(highs)][2] = N.trig]_vars

\* C17 witness: setTiming and setPins of the robust variant ran between the first and
\* the second attempt of one measureOnceCmRobust call: the first used echo pin P2 and
\* timeout 40000, the second, pending, uses P0 and 15000.
C17_Witness ==
    /\ task[Measurer].pc = "r_p2"
    /\ PulseCalls(obs[Measurer].log) = << <<"pulseIn", "P2", "High", 40000>>,
                                          <<"pulseIn", "P0", "Low", 15000>> >>
    /\ Returned(Configurer, "setPins33")

(***************************************************************************)
(* SpecLevels: the pins have any levels when the program starts (left by   *)
(* the hardware or by earlier writes of the program); the main program     *)
(* sets the pins of both variants and measures.                            *)
(***************************************************************************)
InitAnyLevel ==
    /\ ultrasonic = [trig |-> "P1", echo |-> "P0", maxUs |-> 25000, polling |-> FALSE]
    /\ ultrasonic33 = [trig |-> "P1", echo |-> "P2", maxUs |-> 40000, settleUs |-> 600]
    /\ pinLevel \in [Pins -> {0, 1}]
    /\ task = [t \in Tasks |-> IF t = 1 THEN UserTask ELSE FreeTask]
    /\ running = 0
    /\ obs = [t \in {0} \cup Tasks |-> IF t = 0 THEN NoRegs ELSE NoObs]

NextLevels ==
    \E t \in Tasks :
        \/ \E p \in PinArgs : SetPins(t, p[1], p[2])
        \/ \E p \in PinArgs : SetPins33(t, p[1], p[2])
        \/ SetPins33Return(t)
        \/ CallDistanceCm(t)
        \/ ReadSteps(t, CfgPulses)
        \/ CallDistance(t, Centimeters, Int2Rat(1))
        \/ DistanceSteps(t, CfgPulses)

SpecLevels == InitAnyLevel /\ [][NextLevels]_vars

\* the index of the last write to a pin before event k of a log, 0 if there is none
LastWriteBefore(log, k) ==
    LET W == {j \in 1..(k - 1) : IsWrite(log[j])}
    IN IF W = {} THEN 0 ELSE CHOOSE j \in W : \A i \in W : i <= j

\* C19: with a single task the variant's trigger pin is low whenever its setPins or
\* its single-shot measurement has returned, whatever the levels were before and
\* whichever attempts of the ladder were made; and in every single shot the last write
\* before each pulse measurement is a write of low to the trigger pin, so every
\* trigger-high write has been followed by a trigger-low write by then.
C19_TriggerLow ==
    \A t \in Tasks :
        /\ task[t].pc = "rd_acc" => pinLevel[ultrasonic.trig] = 0
        /\ task[t].pc = "d_acc" => pinLevel[ultrasonic33.trig] = 0
        /\ Returned(t, "setPins") => pinLevel[ultrasonic.trig] = 0
        /\ obs[t].op = "setPins33" => pinLevel[ultrasonic33.trig] = 0
        /\ task[t].pc = "m_pulse" => pinLevel[ultrasonic.trig] = 0
        /\ task[t].pc \in {"r_p1", "r_p2", "r_p3", "r_p4"} => pinLevel[ultrasonic33.trig] = 0
        /\ LET log == obs[t].log
           IN \A k \in 1..Len(log) :
                 IsPulseIn(log[k]) =>
                     LET j == LastWriteBefore(log, k)
                     IN /\ j > 0
                        /\ log[j][3] = 0
                        /\ log[j][2] = (IF obs[t].op = "read" THEN ultrasonic.trig
                                        ELSE ultrasonic33.trig)
                        /\ \E h \in 1..(j - 1) : IsTrigHigh(log[h]) /\ log[h][2] = log[j][2]

\* C19 witness: a robust single shot that went through the whole ladder (two trigger
\* pulses, four pulse measurements) has returned with its trigger pin P2 low, while
\* pin P0, which was high at the start, is still high.
C19_Witness ==
    \E t \in Tasks :
        /\ task[t].pc = "d_acc"
        /\ Len(PulseCalls(obs[t].log)) = 4 /\ Len(TrigHighs(obs[t].log)) = 2
        /\ ultrasonic33.trig = "P2" /\ pinLevel["P2"] = 0
        /\ pinLevel["P0"] = 1

(***************************************************************************)
(* SpecFloat: read and distance in centimetres as functions of the         *)
(* durations pulseIn returns, computed in double precision. One step per   *)
(* loop iteration: the single-shot measurement, the accumulation and the   *)
(* pause; the ladder of the robust variant is reduced to its final dur.    *)
(***************************************************************************)
\* the largest sample count passed to read
MaxFloatSamples == 5
\* durations of the samples: failure, 3 us, 10 cm
FloatPulses == {0, 3, 580}

\* if (d <= 0) return 0; return d / 58
FloatMeasureOnceCm(d) == IF d <= 0 THEN FZero ELSE FDivInt(FromInt(d), UsPerCm)

\* if (cm > 0) { sum += cm; cnt++ }
FloatAccumulate(loc) ==
    IF FLess(FZero, loc.cm)
    THEN [loc EXCEPT !.sum = FAdd(@, loc.cm), !.cnt = @ + 1]
    ELSE loc

\* cmAvg = cnt > 0 ? sum / cnt : 0, returned for Unit.Centimeters
FloatReadResultOverAllSamples(loc) ==
    IF loc.cnt > 0 THEN FDivInt(loc.sum, loc.samples[1]) ELSE FZero
FloatReadResult(loc) ==
    IF loc.cnt > 0 THEN FDivInt(loc.sum, loc.cnt) ELSE FZero

\* if (cm > 0) vals.push(cm)
FloatPushValid(loc) ==
    IF FLess(FZero, loc.cm) THEN [loc EXCEPT !.vals = Append(@, loc.cm)] ELSE loc

\* vals.sort((a, b) => a - b)
RECURSIVE FloatInsert(_, _)
FloatInsert(x, sorted) ==
    IF sorted = <<>> THEN <<x>>
    ELSE IF ~FLess(Head(sorted), x) THEN <<x>> \o sorted
    ELSE <<Head(sorted)>> \o FloatInsert(x, Tail(sorted))
RECURSIVE FloatSort(_)
FloatSort(vals) ==
    IF vals = <<>> THEN <<>> ELSE FloatInsert(Head(vals), FloatSort(Tail(vals)))

\* if (vals.length === 0) return 0; med = sorted vals[vals.length >> 1]
FloatDistanceResult(loc) ==
    IF Len(loc.vals) = 0 THEN FZero ELSE FloatSort(loc.vals)[Half(Len(loc.vals)) + 1]

\* the history of a loop iteration whose single shot ended with duration d
FloatObs(o, d) ==
    [o EXCEPT !.cycles = @ + 1, !.pauses = @ + 1, !.anyPos = @ \/ d > 0,
              !.seen = @ (+) SetToBag({IF d > 0 THEN d ELSE 0})]

\* read(Unit.Centimeters, samples) is called
FloatCallRead(t, samples) ==
    /\ CanRun(t)
    /\ task[t].kind = "user" /\ task[t].pc = "idle"
    /\ SetTask(t, [ReadEntry(task[t], Centimeters, samples)
                      EXCEPT !.pc = "f_read", !.ret = FZero,
                             !.loc.sum = FZero, !.loc.cm = FZero])
    /\ SetObs(t, ReadObs(Centimeters, samples))
    /\ running' = t
    /\ UNCHANGED <<ultrasonic, ultrasonic33, pinLevel>>

\* one iteration of the loop of read: pulseIn returned d
FloatReadSample(t, d) ==
    /\ CanRun(t)
    /\ task[t].pc = "f_read"
    /\ RLess(Int2Rat(task[t].loc.i), task[t].loc.samples)
    /\ SetTask(t, [task[t] EXCEPT !.loc =
                      [FloatAccumulate([task[t].loc EXCEPT !.cm = FloatMeasureOnceCm(d)])
                          EXCEPT !.i = @ + 1]])
    /\ SetObs(t, FloatObs(obs[t], d))
    /\ running' = 0
    /\ UNCHANGED <<ultrasonic, ultrasonic33, pinLevel>>

\* the loop of read is over: it returns
FloatReadReturn(t) ==
    /\ CanRun(t)
    /\ task[t].pc = "f_read"
    /\ ~RLess(Int2Rat(task[t].loc.i), task[t].loc.samples)
    /\ SetTask(t, [task[t] EXCEPT !.pc = "idle", !.ret = FloatReadResult(task[t].loc)])
    /\ SetObs(t, [obs[t] EXCEPT !.done = TRUE])
    /\ running' = 0
    /\ UNCHANGED <<ultrasonic, ultrasonic33, pinLevel>>

\* distance(Unit.Centimeters, samples) is called
FloatCallDistance(t, samples) ==
    /\ CanRun(t)
    /\ task[t].kind = "user" /\ task[t].pc = "idle"
    /\ SetTask(t, [task[t] EXCEPT !.pc = "f_dist", !.ret = FZero,
                                  !.loc = [NoLocals EXCEPT !.samples = samples,
                                                           !.sum = FZero, !.cm = FZero]])
    /\ SetObs(t, [NoObs EXCEPT !.op = "distance", !.req = samples])
    /\ running' = t
    /\ UNCHANGED <<ultrasonic, ultrasonic33, pinLevel>>

\* one iteration of the loop of distance: measureOnceCmRobust ended with dur
FloatDistanceSample(t, dur) ==
    /\ CanRun(t)
    /\ task[t].pc = "f_dist"
    /\ RLess(Int2Rat(task[t].loc.i), task[t].loc.samples)
    /\ SetTask(t, [task[t] EXCEPT !.loc =
                      [FloatPushValid([task[t].loc EXCEPT !.cm = FloatMeasureOnceCm(dur)])
                          EXCEPT !.i = @ + 1]])
    /\ SetObs(t, FloatObs(obs[t], dur))
    /\ running' = 0
    /\ UNCHANGED <<ultrasonic, ultrasonic33, pinLevel>>

\* the loop of distance is over: it returns
FloatDistanceReturn(t) ==
    /\ CanRun(t)
    /\ task[t].pc = "f_dist"
    /\ ~RLess(Int2Rat(task[t].loc.i), task[t].loc.samples)
    /\ SetTask(t, [task[t] EXCEPT !.pc = "idle", !.ret = FloatDistanceResult(task[t].loc)])
    /\ SetObs(t, [obs[t] EXCEPT !.done = TRUE])
    /\ running' = 0
    /\ UNCHANGED <<ultrasonic, ultrasonic33, pinLevel>>

NextFloat ==
    \E t \in Tasks :
        \/ \E n \in 0..MaxFloatSamples : FloatCallRead(t, Int2Rat(n))
        \/ \E d \in FloatPulses : FloatReadSample(t, d)
        \/ FloatReadReturn(t)
        \/ \E n \in 0..MaxSamples33 : FloatCallDistance(t, Int2Rat(n))
        \/ \E d \in FloatPulses : FloatDistanceSample(t, d)
        \/ FloatDistanceReturn(t)

SpecFloat == Init /\ [][NextFloat]_vars

\* the sample, in centimetres, of a valid duration x
SampleCm(x) == FDivInt(FromInt(x), UsPerCm)
\* the k-th double above x
RECURSIVE FSuccN(_, _)
FSuccN(x, k) == IF k = 0 THEN x ELSE FSuccN(FSucc(x), k - 1)
\* the smallest and the largest of a non-empty set of integers
Least(S) == CHOOSE x \in S : \A y \in S : x <= y
Greatest(S) == CHOOSE x \in S : \A y \in S : y <= x

\* C20 as claimed: a centimetre result of read or distance that is not 0 lies between
\* the smallest and the largest valid sample of the call, the result of distance is
\* one of the valid samples, and the result is 0 only when no sample was valid.
C20_WithinValidSamples ==
    \A t \in Tasks :
        (Returned(t, "read") \/ Returned(t, "distance"))
            => LET V == ValidSet(obs[t].seen)
                   r == task[t].ret
               IN /\ r # FZero =>
                        /\ V # {}
                        /\ ~FLess(r, SampleCm(Least(V)))
                        /\ ~FLess(SampleCm(Greatest(V)), r)
                  /\ r # FZero /\ obs[t].op = "distance" => \E x \in V : r = SampleCm(x)
                  /\ r = FZero => V = {}

\* C20 amended: the result of distance is one of the valid samples; the result of
\* read, the mean of the k valid samples computed in double precision, is at most
\* k units in the last place below the smallest or above the largest valid sample;
\* the result is 0 exactly when no sample was valid.
C20_WithinValidSamplesRounded ==
    \A t \in Tasks :
        (Returned(t, "read") \/ Returned(t, "distance"))
            => LET V == ValidSet(obs[t].seen)
                   k == ValidCount(obs[t].seen)
                   r == task[t].ret
               IN /\ r # FZero /\ obs[t].op = "read" =>
                        /\ V # {}
                        /\ ~FLess(FSuccN(r, k), SampleCm(Least(V)))
                        /\ ~FLess(FSuccN(SampleCm(Greatest(V)), k), r)
                        /\ k = 1 => r = SampleCm(Least(V))
                  /\ r # FZero /\ obs[t].op = "distance" => \E x \in V : r = SampleCm(x)
                  /\ r = FZero <=> V = {}

\* C20 witness: read(Centimeters, 5) with five samples of 3 us each returned
\* 0.05172413793103449, the double next above the sample 3 / 58 = 0.05172413793103448.
C20_Witness ==
    \E t \in Tasks :
        /\ Returned(t, "read")
        /\ obs[t].seen = [x \in {3} |-> 5]
        /\ task[t].ret = FSucc(SampleCm(3))
        /\ FLess(SampleCm(3), task[t].ret)

====
